---- MODULE Spec2Model ----
(***************************************************************************)
(* Model of the Flask task-tracking API: the User / Task / Role tables of  *)
(* src/app.py, the login handler, the two authorization guards of         *)
(* src/utils.py and the user and task controllers.                        *)
(*                                                                         *)
(* The store is the SQLite database the application configures by default *)
(* (app.py:123).  SQLite does not enforce FOREIGN KEY clauses unless the   *)
(* foreign_keys pragma is switched on, which nothing in the application    *)
(* does; NOT NULL and PRIMARY KEY constraints are enforced.  An INTEGER    *)
(* PRIMARY KEY column without AUTOINCREMENT receives max(id)+1 on insert.  *)
(* A handler that raises (KeyError, AttributeError, IntegrityError) ends   *)
(* the request with status 500 and its session is rolled back.            *)
(*                                                                         *)
(* Request bodies carry, for each column, a value of the column's type or  *)
(* null.  Spec is the whole API; the claims are checked under the          *)
(* specifications SpecAuth, SpecGuard, SpecTasks and SpecPatch, each the   *)
(* API restricted to some of its routes.                                   *)
(***************************************************************************)
EXTENDS Integers, Sequences, FiniteSets, TLC

\* ------------------------------------------------------------------ bounds
MaxId == 2          \* identifiers range over 1..MaxId
MaxBodyKeys == 2    \* a PATCH body carries at most this many keys

Ids == 1..MaxId

\* ------------------------------------------------------- HTTP status codes
OK == 200
CREATED == 201
NO_CONTENT == 204
UNAUTHORIZED == 401
FORBIDDEN == 403
NOT_FOUND == 404
INTERNAL_SERVER_ERROR == 500

\* ---------------------------------------------------------------- JSON values
\* A JSON value of a request body: null, an integer, a string or a boolean.
JNull == [k |-> "null", i |-> 0, s |-> "", b |-> FALSE]
JInt(n) == [k |-> "int", i |-> n, s |-> "", b |-> FALSE]
JStr(x) == [k |-> "str", i |-> 0, s |-> x, b |-> FALSE]
JBool(x) == [k |-> "bool", i |-> 0, s |-> "", b |-> x]
JEmptyList == [k |-> "list", i |-> 0, s |-> "", b |-> FALSE]

IsNull(v) == v.k = "null"

Usernames == {"ana", "bob"}
Passwords == {"pw1", "pw2"}
Titles == {"t1", "t2"}
RoleNames == {"admin", "normal"}

\* The role table; no handler under src/ writes it.
RoleTable == {[id |-> 1, name |-> "admin"], [id |-> 2, name |-> "normal"]}
RoleIds == 1..3

\* ------------------------------------------------- str(int) and int(str)
\* Decimal strings are sequences of digits.
RECURSIVE str(_)
str(n) == IF n < 10 THEN <<n>> ELSE str(n \div 10) \o <<n % 10>>

RECURSIVE int(_)
int(s) == IF Len(s) = 0 THEN 0
          ELSE 10 * int(SubSeq(s, 1, Len(s) - 1)) + s[Len(s)]

NoToken == <<>>

\* ------------------------------------------------------------------ state
VARIABLES users, tasks, roles, issued, usedUserIds, usedTaskIds, req, resp

vars == <<users, tasks, roles, issued, usedUserIds, usedTaskIds, req, resp>>

store == <<users, tasks, roles>>

\* ---------------------------------------------------------------- responses
Response(status, message, token, ran, body) ==
    [status |-> status, message |-> message, token |-> token,
     ran |-> ran, body |-> body]

\* An exception that leaves the handler: Flask answers 500.
Fault == Response(INTERNAL_SERVER_ERROR, "Internal Server Error", NoToken, FALSE, {})

\* flask.abort(404) raised by db.get_or_404
NotFound == Response(NOT_FOUND, "Not Found", NoToken, FALSE, {})

\* ------------------------------------------------------------- persistence
\* db.session.get(Model, ident): the row with that primary key, if any
Has(rows, ident) == \E r \in rows : r.id = ident
Get(rows, ident) == CHOOSE r \in rows : r.id = ident

\* rowid chosen by SQLite for an INTEGER PRIMARY KEY without AUTOINCREMENT
RECURSIVE MaxOf(_)
MaxOf(S) == IF S = {} THEN 0
            ELSE LET x == CHOOSE y \in S : TRUE
                     m == MaxOf(S \ {x})
                 IN IF x > m THEN x ELSE m

NextId(rows) == MaxOf({r.id : r \in rows}) + 1

\* User.role: the Role row role_id refers to, None when there is none
HasRole(rs, user) == \E r \in rs : r.id = user.role_id
RoleOf(rs, user) == CHOOSE r \in rs : r.id = user.role_id

\* mutant: the relationship joined on the task's own id
TasksOfJoinedOnId(ts, user) == {t \in ts : t.id = user.id}

\* User.tasks: the Task rows whose user_id is the user's id
TasksOf(ts, user) == {t \in ts : t.user_id = user.id}

\* data.get(key, None) and `key in data` on the JSON body
DictGet(data, key) == IF key \in DOMAIN data THEN data[key] ELSE JNull

\* ------------------------------------------------------------- User table
\* User columns as the ORM holds them before a flush (app.py:28-31)
UserPending(id, username, password, role_id) ==
    [id |-> id, username |-> username, password |-> password, role_id |-> role_id]

UserRow(p) == [id |-> p.id.i, username |-> p.username.s,
               password |-> p.password.s, role_id |-> p.role_id.i]

\* nullable=False on username and password; Mapped[int] makes role_id NOT NULL
UserNotNull(p) ==
    /\ ~IsNull(p.username)
    /\ ~IsNull(p.password)
    /\ ~IsNull(p.role_id)

\* ------------------------------------------------------------ auth.login
\* The set of responses login can give: .scalar() takes the first row of an
\* unordered SELECT, so any row with the username may be the one compared.
BadLogin == Response(UNAUTHORIZED, "Bad username or password", NoToken, FALSE, {})

LoginWith(user, password) ==
    IF JStr(user.password) # password
    THEN BadLogin
    ELSE Response(OK, "", str(user.id), FALSE, {})

login(us, data) ==
    LET username == DictGet(data, "username")
        password == DictGet(data, "password")
        found == {u \in us : JStr(u.username) = username}
    IN IF found = {} THEN {BadLogin}
       ELSE {LoginWith(u, password) : u \in found}

\* --------------------------------------------------------- user controller
Unchanged(us, ts, r) == [users |-> us, tasks |-> ts, resp |-> r, newId |-> 0]

create_user(us, ts, data) ==
    IF "username" \notin DOMAIN data
    THEN Unchanged(us, ts, Fault)                         \* KeyError
    ELSE LET p == UserPending(JInt(NextId(us)), data["username"], JNull, JNull)
         IN IF ~UserNotNull(p)
            THEN Unchanged(us, ts, Fault)                 \* IntegrityError
            ELSE [users |-> us \cup {UserRow(p)}, tasks |-> ts,
                  resp |-> Response(CREATED, "User created!", NoToken, FALSE, {}),
                  newId |-> p.id.i]

list_users(us) == {[id |-> u.id, username |-> u.username] : u \in us}

TaskView(t) == [id |-> t.id, title |-> t.title, done |-> t.done]

get_user(us, ts, user_id) ==
    IF ~Has(us, user_id) THEN NotFound
    ELSE LET user == Get(us, user_id)
         IN Response(OK, "", NoToken, FALSE,
                {[id |-> user.id, username |-> user.username,
                  tasks |-> {TaskView(t) : t \in TasksOf(ts, user)}]})

\* the loop over mapper.attrs: a column takes the body's value when its key
\* is in the body and keeps its own otherwise
PatchColumn(data, key, old) == IF key \in DOMAIN data THEN data[key] ELSE old

UserPatch(user, data) ==
    UserPending(PatchColumn(data, "id", JInt(user.id)),
                PatchColumn(data, "username", JStr(user.username)),
                PatchColumn(data, "password", JStr(user.password)),
                PatchColumn(data, "role_id", JInt(user.role_id)))

\* setattr on the relationship attributes tasks and role
UserRelationshipFault(ts, user, data) ==
    \/ /\ "role" \in DOMAIN data          \* role = None clears role_id
    \/ /\ "tasks" \in DOMAIN data
       /\ \/ data["tasks"] # JEmptyList   \* not a collection: TypeError
          \/ TasksOf(ts, user) # {}       \* removed tasks get user_id NULL

update_user(us, ts, user_id, data) ==
    IF ~Has(us, user_id) THEN Unchanged(us, ts, NotFound)
    ELSE LET user == Get(us, user_id)
             p == UserPatch(user, data)
         IN IF \/ UserRelationshipFault(ts, user, data)
               \/ IsNull(p.id)
               \/ ~UserNotNull(p)
               \/ Has(us \ {user}, p.id.i)               \* PRIMARY KEY
            THEN Unchanged(us, ts, Fault)
            ELSE [users |-> (us \ {user}) \cup {UserRow(p)}, tasks |-> ts,
                  resp |-> Response(OK, "", NoToken, FALSE,
                              {[id |-> p.id.i, username |-> p.username.s]}),
                  newId |-> 0]

delete_user(us, ts, user_id) ==
    IF ~Has(us, user_id) THEN Unchanged(us, ts, NotFound)
    ELSE LET user == Get(us, user_id)
         IN IF TasksOf(ts, user) # {}
            THEN Unchanged(us, ts, Fault)   \* UPDATE task SET user_id=NULL
            ELSE [users |-> us \ {user}, tasks |-> ts,
                  resp |-> Response(NO_CONTENT, "", NoToken, FALSE, {}),
                  newId |-> 0]

\* ------------------------------------------------------------- Task table
\* Task columns as the ORM holds them before a flush (app.py:51-54)
TaskPending(id, user_id, title, done) ==
    [id |-> id, user_id |-> user_id, title |-> title, done |-> done]

TaskRow(p) == [id |-> p.id.i, user_id |-> p.user_id.i,
               title |-> p.title.s, done |-> p.done.b]

\* Mapped[int] makes user_id NOT NULL; nullable=False on title and done.
\* ForeignKey('user.id') is declared but SQLite does not check it.
TaskNotNull(p) ==
    /\ ~IsNull(p.user_id)
    /\ ~IsNull(p.title)
    /\ ~IsNull(p.done)

\* --------------------------------------------------------- task controller
create_task(us, ts, data) ==
    IF ~({"user_id", "title", "done"} \subseteq DOMAIN data)
    THEN Unchanged(us, ts, Fault)                         \* KeyError
    ELSE LET p == TaskPending(JInt(NextId(ts)), data["user_id"],
                              data["title"], data["done"])
         IN IF ~TaskNotNull(p)
            THEN Unchanged(us, ts, Fault)                 \* IntegrityError
            ELSE [users |-> us, tasks |-> ts \cup {TaskRow(p)},
                  resp |-> Response(CREATED, "Task created!", NoToken, FALSE, {}),
                  newId |-> p.id.i]

\* db.session.excute: the session has no such attribute, AttributeError
list_tasks(ts) == Fault

TaskFull(t) == [id |-> t.id, user_id |-> t.user_id, title |-> t.title, done |-> t.done]

get_task(ts, task_id) ==
    IF ~Has(ts, task_id) THEN NotFound
    ELSE Response(OK, "", NoToken, FALSE, {TaskFull(Get(ts, task_id))})

\* mutant: a body without done resets done to False
TaskPatchResetsDone(task, data) ==
    TaskPending(PatchColumn(data, "id", JInt(task.id)),
                PatchColumn(data, "user_id", JInt(task.user_id)),
                PatchColumn(data, "title", JStr(task.title)),
                PatchColumn(data, "done", JBool(FALSE)))

TaskPatch(task, data) ==
    TaskPending(PatchColumn(data, "id", JInt(task.id)),
                PatchColumn(data, "user_id", JInt(task.user_id)),
                PatchColumn(data, "title", JStr(task.title)),
                PatchColumn(data, "done", JBool(task.done)))

\* setattr on the relationship attribute user: a JSON value is no User, and
\* None clears user_id
TaskRelationshipFault(data) == "user" \in DOMAIN data

update_task(us, ts, task_id, data) ==
    IF ~Has(ts, task_id) THEN Unchanged(us, ts, NotFound)
    ELSE LET task == Get(ts, task_id)
             p == TaskPatch(task, data)
         IN IF \/ TaskRelationshipFault(data)
               \/ IsNull(p.id)
               \/ ~TaskNotNull(p)
               \/ Has(ts \ {task}, p.id.i)               \* PRIMARY KEY
            THEN Unchanged(us, ts, Fault)
            ELSE [users |-> us, tasks |-> (ts \ {task}) \cup {TaskRow(p)},
                  resp |-> Response(OK, "", NoToken, FALSE, {TaskFull(TaskRow(p))}),
                  newId |-> 0]

\* mutant: deleting a missing task answers 204 like deleting a stored one
delete_task_lenient(us, ts, task_id) ==
    [users |-> us, tasks |-> {t \in ts : t.id # task_id},
     resp |-> Response(NO_CONTENT, "", NoToken, FALSE, {}),
     newId |-> 0]

delete_task(us, ts, task_id) ==
    IF ~Has(ts, task_id) THEN Unchanged(us, ts, NotFound)
    ELSE [users |-> us, tasks |-> ts \ {Get(ts, task_id)},
          resp |-> Response(NO_CONTENT, "", NoToken, FALSE, {}),
          newId |-> 0]

\* ------------------------------------------------------------------ guards
\* the wrapped view function f(*args, **kwargs)
Wrapped == Response(OK, "", NoToken, TRUE, {})

Forbidden == Response(FORBIDDEN, "User dont have access.", NoToken, FALSE, {})

requires_role(us, rs, identity, role_name) ==
    IF ~Has(us, int(identity)) THEN NotFound
    ELSE LET user == Get(us, int(identity))
         IN IF ~HasRole(rs, user) THEN Fault        \* None has no attribute name
            ELSE IF RoleOf(rs, user).name # role_name THEN Forbidden
            ELSE Wrapped

\* mutant: the guard looks the target user up before comparing
requires_user_checks_target(identity, target_user_id) ==
    IF ~Has(users, target_user_id) THEN NotFound
    ELSE IF int(identity) # target_user_id THEN Forbidden ELSE Wrapped

requires_user(identity, target_user_id) ==
    IF int(identity) # target_user_id THEN Forbidden ELSE Wrapped

\* ------------------------------------------------------------ request inputs
JValues == {JNull, JEmptyList} \cup {JInt(i) : i \in Ids \cup RoleIds}
             \cup {JStr(x) : x \in Usernames \cup Passwords \cup Titles \cup {"x"}}
             \cup {JBool(x) : x \in BOOLEAN}

ValuesFor(key) ==
    CASE key \in {"id", "user_id"} -> {JInt(i) : i \in Ids} \cup {JNull}
      [] key = "role_id" -> {JInt(i) : i \in RoleIds} \cup {JNull}
      [] key = "username" -> {JStr(x) : x \in Usernames} \cup {JNull}
      [] key = "password" -> {JStr(x) : x \in Passwords} \cup {JNull}
      [] key = "title" -> {JStr(x) : x \in Titles} \cup {JNull}
      [] key = "done" -> {JBool(x) : x \in BOOLEAN} \cup {JNull}
      [] key = "tasks" -> {JEmptyList, JNull}
      [] key \in {"user", "role"} -> {JNull}
      [] OTHER -> {JStr("x")}

BodiesOn(K) == {f \in [K -> JValues] : \A key \in K : f[key] \in ValuesFor(key)}

BodiesOver(keys, n) ==
    UNION {BodiesOn(K) : K \in {S \in SUBSET keys : Cardinality(S) <= n}}

\* mapper.attrs of User and of Task, and a key that is no attribute
UserAttrs == {"id", "username", "password", "role_id", "tasks", "role"}
TaskAttrs == {"id", "user_id", "title", "done", "user"}
OtherKey == "color"

LoginBodies == BodiesOver({"username", "password"}, 2)
UserPostBodies == BodiesOver({"username", OtherKey}, 2)
UserPatchBodies == BodiesOver(UserAttrs \cup {OtherKey}, 1)
\* POST /tasks/ bodies: the three keys, at most one of them missing or null
Defects(data) ==
    Cardinality({"user_id", "title", "done"} \ DOMAIN data)
        + Cardinality({key \in DOMAIN data : IsNull(data[key])})

TaskPostBodies == {f \in BodiesOver({"user_id", "title", "done"}, 3) : Defects(f) <= 1}
TaskPatchBodies == BodiesOver(TaskAttrs \cup {OtherKey}, MaxBodyKeys)

NoBody == CHOOSE f \in BodiesOn({}) : TRUE

\* newId: the primary key the request's INSERT was given, 0 when it made none
Request(op, id, data, identity, role_name) ==
    [op |-> op, id |-> id, data |-> data, identity |-> identity,
     role_name |-> role_name, newId |-> 0]

\* ------------------------------------------------------------------- Init
IdsOf(rows) == {r.id : r \in rows}

\* user tables: at most one row per id, no two rows sharing a username
UserCells == [username : Usernames, password : Passwords, role_id : IdsOf(RoleTable)]

UserTables ==
    LET all == UNION {{{[id |-> i, username |-> f[i].username,
                         password |-> f[i].password, role_id |-> f[i].role_id]
                          : i \in S} : f \in [S -> UserCells]} : S \in SUBSET Ids}
    IN {us \in all : \A r1, r2 \in us : r1.username = r2.username => r1 = r2}

InitWith(us) ==
    /\ users = us
    /\ tasks = {}
    /\ roles = RoleTable
    /\ issued = {}
    /\ usedUserIds = IdsOf(us)
    /\ usedTaskIds = {}
    /\ req = Request("none", 0, NoBody, NoToken, "")
    /\ resp = Response(OK, "", NoToken, FALSE, {})

Init == \E us \in UserTables : InitWith(us)

\* the task blueprint is explored from a table holding some of two users
SeedUsers == {[id |-> 1, username |-> "ana", password |-> "pw1", role_id |-> 1],
              [id |-> 2, username |-> "bob", password |-> "pw1", role_id |-> 1]}

InitTasks == \E us \in SUBSET SeedUsers : InitWith(us)

\* no user, or the first user alone
InitPatch == \E us \in {t \in SUBSET SeedUsers : IdsOf(t) \subseteq {1}} : InitWith(us)

\* ---------------------------------------------------------------- actions
\* One request: the handler's result becomes the store and the response.
Handle(request, r) ==
    /\ req' = [request EXCEPT !.newId = r.newId]
    /\ resp' = r.resp
    /\ users' = r.users
    /\ tasks' = r.tasks
    /\ usedUserIds' = usedUserIds \cup IdsOf(r.users)
    /\ usedTaskIds' = usedTaskIds \cup IdsOf(r.tasks)
    /\ UNCHANGED <<roles, issued>>

PostLogin ==
    \E data \in LoginBodies : \E r \in login(users, data) :
        /\ req' = Request("login", 0, data, NoToken, "")
        /\ resp' = r
        /\ issued' = IF r.status = OK THEN issued \cup {r.token} ELSE issued
        /\ UNCHANGED <<users, tasks, roles, usedUserIds, usedTaskIds>>

CallRequiresRole ==
    \E identity \in issued, role_name \in RoleNames :
        /\ Handle(Request("requires_role", 0, NoBody, identity, role_name),
               Unchanged(users, tasks, requires_role(users, roles, identity, role_name)))

CallRequiresUser ==
    \E identity \in issued, target_user_id \in Ids :
        /\ Handle(Request("requires_user", target_user_id, NoBody, identity, ""),
               Unchanged(users, tasks, requires_user(identity, target_user_id)))

\* list_or_create_user of the user controller, by method
GetUsers ==
    /\ Handle(Request("list_users", 0, NoBody, NoToken, ""),
           Unchanged(users, tasks, Response(OK, "", NoToken, FALSE, list_users(users))))

PostUsers ==
    \E data \in UserPostBodies :
        /\ NextId(users) <= MaxId
        /\ Handle(Request("create_user", 0, data, NoToken, ""),
                  create_user(users, tasks, data))

GetUser ==
    \E user_id \in Ids :
        /\ Handle(Request("get_user", user_id, NoBody, NoToken, ""),
               Unchanged(users, tasks, get_user(users, tasks, user_id)))

PatchUser ==
    \E user_id \in Ids, data \in UserPatchBodies :
        /\ Handle(Request("update_user", user_id, data, NoToken, ""),
               update_user(users, tasks, user_id, data))

DeleteUser ==
    \E user_id \in Ids :
        /\ Handle(Request("delete_user", user_id, NoBody, NoToken, ""),
               delete_user(users, tasks, user_id))

\* list_or_create_user of the task controller, by method
GetTasks ==
    /\ Handle(Request("list_tasks", 0, NoBody, NoToken, ""),
           Unchanged(users, tasks, list_tasks(tasks)))

PostTasks ==
    \E data \in TaskPostBodies :
        /\ NextId(tasks) <= MaxId
        /\ Handle(Request("create_task", 0, data, NoToken, ""),
                  create_task(users, tasks, data))

GetTask ==
    \E task_id \in Ids :
        /\ Handle(Request("get_task", task_id, NoBody, NoToken, ""),
               Unchanged(users, tasks, get_task(tasks, task_id)))

PatchTask ==
    \E task_id \in Ids, data \in TaskPatchBodies :
        /\ Handle(Request("update_task", task_id, data, NoToken, ""),
               update_task(users, tasks, task_id, data))

DeleteTask ==
    \E task_id \in Ids :
        /\ Handle(Request("delete_task", task_id, NoBody, NoToken, ""),
               delete_task(users, tasks, task_id))

Next ==
    \/ PostLogin \/ CallRequiresRole \/ CallRequiresUser
    \/ GetUsers \/ PostUsers \/ GetUser \/ PatchUser \/ DeleteUser
    \/ GetTasks \/ PostTasks \/ GetTask \/ PatchTask \/ DeleteTask

Spec == Init /\ [][Next]_vars

\* the auth blueprint, the guards and the user blueprint
NextAuth ==
    \/ PostLogin \/ CallRequiresRole \/ CallRequiresUser
    \/ GetUsers \/ PostUsers \/ GetUser \/ PatchUser \/ DeleteUser

SpecAuth == Init /\ [][NextAuth]_vars

\* login and the guards over a user table that only shrinks
NextGuard == PostLogin \/ CallRequiresRole \/ CallRequiresUser \/ DeleteUser

SpecGuard == Init /\ [][NextGuard]_vars

\* the task blueprint without PATCH, and the reads and deletes of users
NextTasks ==
    \/ GetTasks \/ PostTasks \/ GetTask \/ DeleteTask
    \/ GetUser \/ DeleteUser

SpecTasks == InitTasks /\ [][NextTasks]_vars

\* the writes of the task blueprint
NextPatch == PostTasks \/ PatchTask \/ DeleteTask

SpecPatch == InitPatch /\ [][NextPatch]_vars

\* ------------------------------------------------------------------ claims
StoredWith(username, password) ==
    {u \in users : JStr(u.username) = username /\ JStr(u.password) = password}

\* C1: login with the exact username and password of any stored user returns a
\* token whose subject is the id, in string form, of a stored user with that
\* username and password, also when several users share a username; any other
\* login returns 401 with no token and one and the same message.
C1_LoginTokenOrUnauthorized ==
    req.op = "login" =>
        LET stored == StoredWith(DictGet(req.data, "username"),
                                 DictGet(req.data, "password"))
        IN /\ stored # {} => /\ resp.status = OK
                             /\ resp.token \in {str(u.id) : u \in stored}
           /\ stored = {} => /\ resp.status = UNAUTHORIZED
                             /\ resp.token = NoToken
                             /\ resp.message = "Bad username or password"

\* C2: a call through requires_role(name) by a caller whose token subject
\* resolves to an existing user runs the wrapped operation when the user's
\* role name is name, and is otherwise (other role name, or no role) rejected
\* with 403 without running it; no unhandled fault escapes.
C2_RoleGuardNeverFaults ==
    (req.op = "requires_role" /\ Has(users, int(req.identity))) =>
        LET user == Get(users, int(req.identity))
            matches == \E r \in roles : r.id = user.role_id /\ r.name = req.role_name
        IN /\ resp.status # INTERNAL_SERVER_ERROR
           /\ matches => resp.ran /\ resp.status = OK
           /\ ~matches => ~resp.ran /\ resp.status = FORBIDDEN

\* C3: a call through requires_user runs the wrapped operation when the token
\* subject, as an integer, equals the target id, and otherwise returns 403
\* without running it, whether or not a user with the target id exists.
C3_SelfGuard ==
    req.op = "requires_user" =>
        IF int(req.identity) = req.id
        THEN resp.ran /\ resp.status = OK
        ELSE ~resp.ran /\ resp.status = FORBIDDEN

C3_Witness ==
    /\ req.op = "requires_user"
    /\ resp.status = FORBIDDEN
    /\ ~Has(users, req.id)
    /\ Has(users, int(req.identity))

\* C4: every task in the store is owned by a user that currently exists.
C4_EveryTaskHasOwner == \A t \in tasks : Has(users, t.user_id)

\* C5: once a task is created for an existing user U, GET of U lists the task
\* with its id, title and done; once a task is deleted, no GET of a user lists
\* a task with its id.
C5_UserListsOwnTasks ==
    /\ (req.op = "create_task" /\ resp.status = CREATED
            /\ Has(users, req.data["user_id"].i)) =>
           LET got == get_user(users, tasks, req.data["user_id"].i)
           IN /\ got.status = OK
              /\ \A view \in got.body :
                    [id |-> req.newId, title |-> req.data["title"].s,
                     done |-> req.data["done"].b] \in view.tasks
    /\ (req.op = "delete_task" /\ resp.status = NO_CONTENT) =>
           \A u \in users : \A view \in get_user(users, tasks, u.id).body :
               \A t \in view.tasks : t.id # req.id

C5_Witness ==
    /\ req.op = "create_task"
    /\ resp.status = CREATED
    /\ Has(users, req.data["user_id"].i)
    /\ Cardinality(tasks) > 1

\* C6: a successful PATCH of a task gives each column named in the body the
\* body's value and leaves the task's other columns, every other task and
\* every user as they were; keys that are no attribute change nothing; a
\* PATCH that does not succeed changes nothing.
C6_Expected(old, data) ==
    [id |-> IF "id" \in DOMAIN data THEN data["id"].i ELSE old.id,
     user_id |-> IF "user_id" \in DOMAIN data THEN data["user_id"].i ELSE old.user_id,
     title |-> IF "title" \in DOMAIN data THEN data["title"].s ELSE old.title,
     done |-> IF "done" \in DOMAIN data THEN data["done"].b ELSE old.done]

C6_Step ==
    req'.op = "update_task" =>
        /\ users' = users /\ roles' = roles
        /\ IF resp'.status = OK
           THEN /\ Has(tasks, req'.id)
                /\ tasks' = (tasks \ {Get(tasks, req'.id)})
                               \cup {C6_Expected(Get(tasks, req'.id), req'.data)}
                /\ Cardinality(tasks') = Cardinality(tasks)
           ELSE tasks' = tasks

C6_PatchChangesOnlyBodyFields == [][C6_Step]_vars

C6_Witness ==
    /\ req.op = "update_task"
    /\ resp.status = OK
    /\ DOMAIN req.data = {"done", OtherKey}
    /\ req.data["done"] = JBool(TRUE)
    /\ Cardinality(tasks) > 1
    /\ \E t \in tasks : t.id = req.id /\ t.done /\ t.title = "t2"

\* C7: POST /users/ with only a username creates a user that GET by its id
\* returns with the same username and an empty task list.
C7_CreatedUserIsFetched ==
    (req.op = "create_user" /\ DOMAIN req.data = {"username"}
        /\ ~IsNull(req.data["username"])) =>
        /\ resp.status = CREATED
        /\ get_user(users, tasks, req.newId).body =
               {[id |-> req.newId, username |-> req.data["username"].s, tasks |-> {}]}

\* C8: DELETE of a user or task id that resolves to no stored row returns 404
\* and changes nothing in the store; DELETE of a stored task returns 204 and
\* the same DELETE again would return 404.
C8_Step ==
    /\ (req'.op = "delete_task" /\ ~Has(tasks, req'.id)) =>
           resp'.status = NOT_FOUND /\ store' = store
    /\ (req'.op = "delete_user" /\ ~Has(users, req'.id)) =>
           resp'.status = NOT_FOUND /\ store' = store
    /\ (req'.op = "delete_task" /\ Has(tasks, req'.id)) =>
           /\ resp'.status = NO_CONTENT
           /\ delete_task(users', tasks', req'.id).resp.status = NOT_FOUND
           /\ delete_task(users', tasks', req'.id).tasks = tasks'

C8_DeleteMissingIsNotFound == [][C8_Step]_vars

C8_Witness ==
    /\ req.op = "delete_task"
    /\ resp.status = NOT_FOUND
    /\ req.id \in usedTaskIds
    /\ tasks # {}

\* C9: no PATCH changes the id of a user or a task, and a created user or
\* task never gets an id a row of its table held before.
C9_Step ==
    /\ (req'.op = "update_task" /\ resp'.status = OK) => IdsOf(tasks') = IdsOf(tasks)
    /\ (req'.op = "update_user" /\ resp'.status = OK) => IdsOf(users') = IdsOf(users)
    /\ (req'.op = "create_task" /\ resp'.status = CREATED) => req'.newId \notin usedTaskIds
    /\ (req'.op = "create_user" /\ resp'.status = CREATED) => req'.newId \notin usedUserIds

C9_IdsImmutableNeverReused == [][C9_Step]_vars

\* C10: GET /tasks/ succeeds in every store state and returns exactly the
\* stored tasks with id, user_id, title and done.
C10_ListTasksSucceeds ==
    req.op = "list_tasks" =>
        /\ resp.status = OK
        /\ resp.body = {TaskFull(t) : t \in tasks}

====
